---- MODULE Spec2Model ----
(***************************************************************************)
(* Model of src/src/main.py: the iframe-compatibility Actor.                *)
(*                                                                         *)
(* A text (HTML, a script body, an attribute value) is a sequence of       *)
(* lexemes, each a string; the text it stands for is their concatenation.  *)
(* The lexemes are chosen so that no regular expression of the program can *)
(* match across a lexeme boundary in a way the lexeme-level match misses:  *)
(* every literal of every pattern is a whole number of lexemes ("frame-"   *)
(* and "ancestors" are two lexemes, so that the directive name can be      *)
(* assembled from pieces).                                                 *)
(***************************************************************************)
EXTENDS Naturals, Sequences, FiniteSets

VARIABLES
  url,                 \* actor_input.get('url'); NoUrl when missing
  pc,                  \* position of main() (the orchestrator's state)
  original_html,       \* response.text
  original_blocked,    \* not assess_iframe_compatibility(original_html)
  soup,                \* the parsed document, mutated in place
  js_modifications,    \* what sanitize_javascript returned
  all_modifications,   \* the Modification Record
  processed_html,      \* str(soup)
  iframe_compatible,   \* the final verdict
  pushed,              \* the records handed to Actor.push_data, in order
  fetches,             \* number of client.get calls issued
  error_logged,        \* Actor.log.error / Actor.log.exception was called
  prev_soup,           \* the document before the last rewrite pass
  runs                 \* number of rewrite passes applied so far

vars == <<url, pc, original_html, original_blocked, soup, js_modifications,
          all_modifications, processed_html, iframe_compatible, pushed,
          fetches, error_logged, prev_soup, runs>>

----------------------------------------------------------------------------
(* Bounds of the model.                                                    *)

MaxPieces == 3      \* pieces of a fetched page (orchestrator runs)
MaxFrags == 3       \* fragments of a page of inline scripts
MaxChunks == 5      \* lexemes of a CSP meta's content attribute
MaxRuns == 2        \* successive passes of a rewriter over one document

----------------------------------------------------------------------------
(* Sequences.                                                              *)

Range(s) == {s[i] : i \in 1..Len(s)}

RECURSIVE Concat(_)
Concat(ss) == IF ss = <<>> THEN <<>> ELSE Head(ss) \o Concat(Tail(ss))

RECURSIVE SeqsUpTo(_, _)
SeqsUpTo(S, n) ==
  IF n = 0 THEN {<<>>}
  ELSE LET shorter == SeqsUpTo(S, n - 1)
       IN  shorter \cup {Append(s, x) : s \in {q \in shorter : Len(q) = n - 1}, x \in S}

Count(x, s) == Cardinality({i \in 1..Len(s) : s[i] = x})

\* First index >= i of s holding a member of S; Len(s) + 1 when there is none.
RECURSIVE FirstIndex(_, _, _)
FirstIndex(s, i, S) ==
  IF i > Len(s) THEN Len(s) + 1
  ELSE IF s[i] \in S THEN i
  ELSE FirstIndex(s, i + 1, S)

----------------------------------------------------------------------------
(* Regular expressions, at the level of lexemes.                           *)
(*                                                                         *)
(* A pattern is [id, head, tail]: id is the pattern's source text, head    *)
(* the sequence of its literals with "\\s*" for optional white space and   *)
(* "!==?" for either comparison operator, and tail the source text of its  *)
(* closing part ("" when it has none).                                     *)

\* str.lower() and re.IGNORECASE: the lexemes that hold capitals.
Lower(tok) ==
  CASE tok = "FrameKiller" -> "framekiller"
    [] tok = "IF" -> "if"
    [] tok = "frameElement" -> "frameelement"
    [] tok = "FRAME-" -> "frame-"
    [] tok = "X-Frame-Options" -> "x-frame-options"
    [] tok = "X-FRAME-OPTIONS" -> "x-frame-options"
    [] tok = "Content-Security-Policy" -> "content-security-policy"
    [] OTHER -> tok

IsSpace(tok) == tok \in {" ", "\n"}

TokMatch(h, tok) ==
  IF h = "!==?" THEN tok \in {"!=", "!=="} ELSE Lower(tok) = h

RECURSIVE SkipSpace(_, _)
SkipSpace(t, i) ==
  IF i <= Len(t) /\ IsSpace(t[i]) THEN SkipSpace(t, i + 1) ELSE i

\* The position after head[k..] matched at t[i..], 0 when it does not match.
\* "\\s*" is greedy and whatever follows it in a head is no white space: no
\* backtracking is needed.
RECURSIVE MatchHead(_, _, _, _)
MatchHead(head, k, t, i) ==
  IF k > Len(head) THEN i
  ELSE IF head[k] = "\\s*" THEN MatchHead(head, k + 1, t, SkipSpace(t, i))
  ELSE IF i <= Len(t) /\ TokMatch(head[k], t[i]) THEN MatchHead(head, k + 1, t, i + 1)
  ELSE 0

\* The last index of the match of tail that starts at t[i], 0 when none.
\* [^c]*c ends at the first c; [^;]*;? runs to the first ";" or to the end.
MatchTail(tail, t, i) ==
  CASE tail = "" -> i - 1
    [] tail = "[^}]*}" ->
         LET j == FirstIndex(t, i, {"}"}) IN IF j > Len(t) THEN 0 ELSE j
    [] tail = "[^;]*;" ->
         LET j == FirstIndex(t, i, {";"}) IN IF j > Len(t) THEN 0 ELSE j
    [] tail = "[^)]*\\);?" ->
         LET j == FirstIndex(t, i, {")"})
         IN  IF j > Len(t) THEN 0
             ELSE IF j < Len(t) /\ t[j + 1] = ";" THEN j + 1 ELSE j
    [] tail = "[^;]*;?" ->
         LET j == FirstIndex(t, i, {";"}) IN IF j > Len(t) THEN Len(t) ELSE j

\* The last index of the match of p that starts at t[s], 0 when none.
MatchAt(p, t, s) ==
  LET i == MatchHead(p.head, 1, t, s)
  IN  IF i = 0 THEN 0 ELSE MatchTail(p.tail, t, i)

\* re.search(p, t) is not None
Search(p, t) == \E s \in 1..Len(t) : MatchAt(p, t, s) # 0

\* re.sub(p, rep, t): every non-overlapping match, leftmost first.
RECURSIVE SubFrom(_, _, _, _)
SubFrom(p, rep, t, i) ==
  IF i > Len(t) THEN <<>>
  ELSE LET e == MatchAt(p, t, i)
       IN  IF e # 0 THEN rep \o SubFrom(p, rep, t, e + 1)
           ELSE <<t[i]>> \o SubFrom(p, rep, t, i + 1)

\* re.sub(p, rep, t, count=1): the first match only.
RECURSIVE SubFirstFrom(_, _, _, _)
SubFirstFrom(p, rep, t, i) ==
  IF i > Len(t) THEN <<>>
  ELSE LET e == MatchAt(p, t, i)
       IN  IF e # 0 THEN rep \o SubSeq(t, e + 1, Len(t))
           ELSE <<t[i]>> \o SubFirstFrom(p, rep, t, i + 1)

SubFirstOnly(p, rep, t) == SubFirstFrom(p, rep, t, 1)

Sub(p, rep, t) == SubFrom(p, rep, t, 1)

\* Number of non-overlapping matches of p in t (what re.sub replaces).
RECURSIVE OccurrencesFrom(_, _, _)
OccurrencesFrom(p, t, i) ==
  IF i > Len(t) THEN 0
  ELSE LET e == MatchAt(p, t, i)
       IN  IF e # 0 THEN 1 + OccurrencesFrom(p, t, e + 1)
           ELSE OccurrencesFrom(p, t, i + 1)

Occurrences(p, t) == OccurrencesFrom(p, t, 1)

----------------------------------------------------------------------------
(* The Signature Catalogue.                                                *)

WS == "\\s*"

Guard(a, b) == <<"if", WS, "(", WS>> \o a \o <<WS, "!==?", WS>> \o b \o <<WS, ")">>

WindowTop == <<"window", ".", "top">>
TopLocation == <<"top", ".", "location">>
WindowLocation == <<"window", ".", "location">>

\* The list `patterns` of detect_frame_busting_patterns.
patterns ==
  << [id |-> "if\\s*\\(\\s*window\\s*!==?\\s*window\\.top\\s*\\)",
      head |-> Guard(<<"window">>, WindowTop), tail |-> ""],
     [id |-> "if\\s*\\(\\s*self\\s*!==?\\s*top\\s*\\)",
      head |-> Guard(<<"self">>, <<"top">>), tail |-> ""],
     [id |-> "if\\s*\\(\\s*parent\\s*!==?\\s*window\\s*\\)",
      head |-> Guard(<<"parent">>, <<"window">>), tail |-> ""],
     [id |-> "window\\.top\\.location\\s*=\\s*window\\.location",
      head |-> <<"window", ".">> \o TopLocation \o <<WS, "=", WS>> \o WindowLocation,
      tail |-> ""],
     [id |-> "parent\\.location\\s*=\\s*self\\.location",
      head |-> <<"parent", ".", "location", WS, "=", WS, "self", ".", "location">>,
      tail |-> ""],
     [id |-> "top\\.location\\s*=\\s*location",
      head |-> TopLocation \o <<WS, "=", WS, "location">>, tail |-> ""],
     [id |-> "window\\.top\\.location\\.href\\s*=\\s*window\\.location\\.href",
      head |-> <<"window", ".">> \o TopLocation \o <<".", "href", WS, "=", WS>>
                 \o WindowLocation \o <<".", "href">>,
      tail |-> ""],
     [id |-> "if\\s*\\(\\s*top\\s*!==?\\s*self\\s*\\)",
      head |-> Guard(<<"top">>, <<"self">>), tail |-> ""],
     [id |-> "if\\s*\\(\\s*window\\.frameElement\\s*\\)",
      head |-> <<"if", WS, "(", WS, "window", ".", "frameelement", WS, ")">>,
      tail |-> ""],
     [id |-> "if\\s*\\(\\s*window\\.parent\\s*!==?\\s*window\\s*\\)",
      head |-> Guard(<<"window", ".", "parent">>, <<"window">>), tail |-> ""],
     [id |-> "top\\.location\\.replace\\(",
      head |-> TopLocation \o <<".", "replace", "(">>, tail |-> ""],
     [id |-> "window\\.top\\.location\\.replace\\(",
      head |-> <<"window", ".">> \o TopLocation \o <<".", "replace", "(">>,
      tail |-> ""],
     [id |-> "break\\s*out\\s*of\\s*frame",
      head |-> <<"break", WS, "out", WS, "of", WS, "frame">>, tail |-> ""],
     [id |-> "framekiller", head |-> <<"framekiller">>, tail |-> ""],
     [id |-> "framebreaker", head |-> <<"framebreaker">>, tail |-> ""] >>

\* The replacement literal of every rewrite signature.
Replacement == <<"// Frame busting code removed">>

\* The list `frame_busting_patterns` of sanitize_javascript.
frame_busting_patterns ==
  << [id |-> "if\\s*\\(\\s*window\\s*!==?\\s*window\\.top\\s*\\)[^}]*}",
      head |-> Guard(<<"window">>, WindowTop), tail |-> "[^}]*}"],
     [id |-> "if\\s*\\(\\s*self\\s*!==?\\s*top\\s*\\)[^}]*}",
      head |-> Guard(<<"self">>, <<"top">>), tail |-> "[^}]*}"],
     [id |-> "if\\s*\\(\\s*parent\\s*!==?\\s*window\\s*\\)[^}]*}",
      head |-> Guard(<<"parent">>, <<"window">>), tail |-> "[^}]*}"],
     [id |-> "window\\.top\\.location\\s*=\\s*[^;]*;",
      head |-> <<"window", ".">> \o TopLocation \o <<WS, "=", WS>>, tail |-> "[^;]*;"],
     [id |-> "parent\\.location\\s*=\\s*[^;]*;",
      head |-> <<"parent", ".", "location", WS, "=", WS>>, tail |-> "[^;]*;"],
     [id |-> "top\\.location\\s*=\\s*[^;]*;",
      head |-> TopLocation \o <<WS, "=", WS>>, tail |-> "[^;]*;"],
     [id |-> "if\\s*\\(\\s*top\\s*!==?\\s*self\\s*\\)[^}]*}",
      head |-> Guard(<<"top">>, <<"self">>), tail |-> "[^}]*}"],
     [id |-> "if\\s*\\(\\s*window\\.frameElement\\s*\\)[^}]*}",
      head |-> <<"if", WS, "(", WS, "window", ".", "frameelement", WS, ")">>,
      tail |-> "[^}]*}"],
     [id |-> "if\\s*\\(\\s*window\\.parent\\s*!==?\\s*window\\s*\\)[^}]*}",
      head |-> Guard(<<"window", ".", "parent">>, <<"window">>), tail |-> "[^}]*}"],
     [id |-> "top\\.location\\.replace\\([^)]*\\);?",
      head |-> TopLocation \o <<".", "replace", "(">>, tail |-> "[^)]*\\);?"],
     [id |-> "window\\.top\\.location\\.replace\\([^)]*\\);?",
      head |-> <<"window", ".">> \o TopLocation \o <<".", "replace", "(">>,
      tail |-> "[^)]*\\);?"] >>

NumRewrite == Len(frame_busting_patterns)

----------------------------------------------------------------------------
(* The Detector.                                                           *)

RECURSIVE DetectFrom(_, _)
DetectFrom(html_content, k) ==
  IF k > Len(patterns) THEN <<>>
  ELSE (IF Search(patterns[k], html_content) THEN <<patterns[k].id>> ELSE <<>>)
         \o DetectFrom(html_content, k + 1)

detect_frame_busting_patterns(html_content) == DetectFrom(html_content, 1)

----------------------------------------------------------------------------
(* Documents: BeautifulSoup(text, 'html.parser') and str(soup).             *)
(*                                                                         *)
(* A document is the sequence of its nodes, [kind, equiv, body]: a script  *)
(* element with its text, a meta element with its http-equiv and content   *)
(* attributes, or a run of text.                                           *)

ScriptNode(body) == [kind |-> "script", equiv |-> "", body |-> body]
MetaNode(equiv, content) == [kind |-> "meta", equiv |-> equiv, body |-> content]
TextNode(body) == [kind |-> "text", equiv |-> "", body |-> body]

Markup == {"<script>", "</script>", "<meta"}

\* A script's text runs to its end tag; a meta tag is
\* <meta http-equiv= v content= c... > and is written back as ... />; an
\* end tag that closes nothing is dropped.
RECURSIVE ParseFrom(_, _)
ParseFrom(t, i) ==
  IF i > Len(t) THEN <<>>
  ELSE IF t[i] = "<script>" THEN
         LET j == FirstIndex(t, i + 1, {"</script>"})
         IN  <<ScriptNode(SubSeq(t, i + 1, j - 1))>> \o ParseFrom(t, j + 1)
  ELSE IF t[i] = "<meta" THEN
         LET j == FirstIndex(t, i + 1, {">", "/>"})
         IN  <<MetaNode(t[i + 2], SubSeq(t, i + 4, j - 1))>> \o ParseFrom(t, j + 1)
  ELSE IF t[i] = "</script>" THEN ParseFrom(t, i + 1)
  ELSE LET j == FirstIndex(t, i + 1, Markup)
       IN  <<TextNode(SubSeq(t, i, j - 1))>> \o ParseFrom(t, j)

BeautifulSoup(text) == ParseFrom(text, 1)

SerializeNode(n) ==
  CASE n.kind = "script" -> <<"<script>">> \o n.body \o <<"</script>">>
    [] n.kind = "meta" ->
         <<"<meta", "http-equiv=", n.equiv, "content=">> \o n.body \o <<"/>">>
    [] OTHER -> n.body

str(doc) == Concat([i \in 1..Len(doc) |-> SerializeNode(doc[i])])

\* The source form of a meta tag, as pages write it.
MetaTag(equiv, content) ==
  <<"<meta", "http-equiv=", equiv, "content=">> \o content \o <<">">>

ScriptTag(body) == <<"<script>">> \o body \o <<"</script>">>

----------------------------------------------------------------------------
(* The Script Rewriter.                                                    *)

RemovedEntry(p) == "Removed frame-busting pattern: " \o p.id

\* One entry for each match that is replaced, instead of one for the call.
RECURSIVE AppendTimes(_, _, _)
AppendTimes(s, x, n) == IF n = 0 THEN s ELSE AppendTimes(Append(s, x), x, n - 1)

RewriteStepEntryPerMatch(p, r) ==
  IF Search(p, r.text)
  THEN [original |-> r.original,
        text |-> Sub(p, Replacement, r.text),
        mods |-> AppendTimes(r.mods, RemovedEntry(p), Occurrences(p, r.text))]
  ELSE r

\* The search made on the script's original text, not on the current one.
RewriteStepSearchOriginal(p, r) ==
  IF Search(p, r.original)
  THEN [original |-> r.original,
        text |-> Sub(p, Replacement, r.text),
        mods |-> Append(r.mods, RemovedEntry(p))]
  ELSE r

\* Lines 73-75: one signature on the current text of one script. r holds
\* original_content, modified_content and the entries this script added.
RewriteStep(p, r) ==
  IF Search(p, r.text)
  THEN [original |-> r.original,
        text |-> Sub(p, Replacement, r.text),
        mods |-> Append(r.mods, RemovedEntry(p))]
  ELSE r

\* The loop of line 72, over the first n signatures.
RECURSIVE RewriteUpTo(_, _)
RewriteUpTo(body, n) ==
  IF n = 0 THEN [original |-> body, text |-> body, mods |-> <<>>]
  ELSE RewriteStep(frame_busting_patterns[n], RewriteUpTo(body, n - 1))

\* The rewriter also substituting a detection-only signature.
RewriteNodeAlsoDetectionOnly(n) ==
  IF n.kind = "script" /\ n.body # <<>>
  THEN LET r == RewriteStep(patterns[14], RewriteUpTo(n.body, NumRewrite))
       IN  [node |-> [n EXCEPT !.body = r.text], mods |-> r.mods]
  ELSE [node |-> n, mods |-> <<>>]

\* Lines 52-79 for one node: a script with a non-empty string is rewritten,
\* and its string is set when the text changed.
RewriteNode(n) ==
  IF n.kind = "script" /\ n.body # <<>>
  THEN LET r == RewriteUpTo(n.body, NumRewrite)
       IN  [node |-> (IF r.text # r.original THEN [n EXCEPT !.body = r.text] ELSE n),
            mods |-> r.mods]
  ELSE [node |-> n, mods |-> <<>>]

sanitize_javascript(doc) ==
  [soup |-> [i \in 1..Len(doc) |-> RewriteNode(doc[i]).node],
   mods |-> Concat([i \in 1..Len(doc) |-> RewriteNode(doc[i]).mods])]

----------------------------------------------------------------------------
(* The Meta-Tag Normalizer.                                                *)

FrameAncestors == [id |-> "frame-ancestors", head |-> <<"frame-", "ancestors">>, tail |-> ""]
FrameAncestorsDirective ==
  [id |-> "frame-ancestors[^;]*;?", head |-> <<"frame-", "ancestors">>, tail |-> "[^;]*;?"]
DoubleSemicolon == [id |-> ";\\s*;", head |-> <<";", WS, ";">>, tail |-> ""]

\* new_content.strip('; ')
RECURSIVE StripLeft(_)
StripLeft(t) == IF t # <<>> /\ Head(t) \in {";", " "} THEN StripLeft(Tail(t)) ELSE t

RECURSIVE StripRight(_)
StripRight(t) ==
  IF t # <<>> /\ t[Len(t)] \in {";", " "} THEN StripRight(SubSeq(t, 1, Len(t) - 1)) ELSE t

Strip(t) == StripRight(StripLeft(t))

\* Lines 102-104.
NewContent(content) ==
  Strip(Sub(DoubleSemicolon, <<";">>, Sub(FrameAncestorsDirective, <<>>, content)))

\* Lines 93-111 for one node: the nodes left in its place, and the record.
CleanNode(n) ==
  IF n.kind # "meta" THEN [nodes |-> <<n>>, mods |-> <<>>]
  ELSE IF Lower(n.equiv) = "x-frame-options"
       THEN [nodes |-> <<>>, mods |-> <<"Removed X-Frame-Options meta tag">>]
  ELSE IF Lower(n.equiv) = "content-security-policy" /\ Search(FrameAncestors, n.body)
       THEN IF NewContent(n.body) # <<>>
            THEN [nodes |-> <<[n EXCEPT !.body = NewContent(n.body)]>>,
                  mods |-> <<"Modified CSP meta tag to remove frame-ancestors">>]
            ELSE [nodes |-> <<>>, mods |-> <<"Removed CSP meta tag">>]
  ELSE [nodes |-> <<n>>, mods |-> <<>>]

clean_meta_tags(doc) ==
  [soup |-> Concat([i \in 1..Len(doc) |-> CleanNode(doc[i]).nodes]),
   mods |-> Concat([i \in 1..Len(doc) |-> CleanNode(doc[i]).mods])]

----------------------------------------------------------------------------
(* The Compatibility Assessor.                                             *)

\* Lines 126-131: a meta that makes the verdict false.
BlockingMeta(n) ==
  /\ n.kind = "meta"
  /\ \/ Lower(n.equiv) = "x-frame-options"
     \/ /\ Lower(n.equiv) = "content-security-policy"
        /\ Search(FrameAncestors, n.body)
        /\ \E i \in 1..Len(n.body) : Lower(n.body[i]) = "'none'"

\* The verdict taken from the meta tags alone.
AssessMetaOnly(html_content) ==
  LET doc == BeautifulSoup(html_content)
  IN  ~(\E i \in 1..Len(doc) : BlockingMeta(doc[i]))

assess_iframe_compatibility(html_content) ==
  LET remaining_patterns == detect_frame_busting_patterns(html_content)
      doc == BeautifulSoup(html_content)
  IN  IF \E i \in 1..Len(doc) : BlockingMeta(doc[i]) THEN FALSE
      ELSE Len(remaining_patterns) = 0

----------------------------------------------------------------------------
(* Inputs.                                                                 *)

\* Python's None and a present value: a sequence of at most one element.
None == <<>>
Some(v) == <<v>>

\* `not url`: the key is missing (None) or holds the empty string.
Falsy(u) == u = None \/ u = Some("")

Urls == {None, Some(""), Some("https://example.com")}

\* The script body of Scenario A.
ScenarioA ==
  <<"if", " ", "(", "window", " ", "!==", " ", "window", ".", "top", ")", " ",
    "{", " ", "top", ".", "location", " ", "=", " ", "location", ";", " ", "}">>

\* The elements a fetched page is made of.
Pieces ==
  { ScriptTag(ScenarioA),
    ScriptTag(<<"parent", ".", "location", " ", "=", " ", "x", ";">>),
    ScriptTag(<<"top", ".", "location", "=", "location">>),
    ScriptTag(<<"FrameKiller", "(", ")", ";">>),
    <<"break", " ", "out", "\n", "of", " ", "frame">>,
    MetaTag("X-Frame-Options", <<"DENY">>),
    MetaTag("Content-Security-Policy",
            <<"default-src 'self'", ";", " ", "frame-", "ancestors", " ", "'none'">>),
    MetaTag("content-security-policy",
            <<"frame-", "ancestors", " ", "https://", "framekiller", ".example">>),
    MetaTag("refresh", <<"30">>) }

Pages == {Concat(ps) : ps \in SeqsUpTo(Pieces, MaxPieces)}

\* What client.get / raise_for_status raise, with str(e). The timeouts of an
\* AsyncClient carry no message.
FetchErrors ==
  { [type |-> "ReadTimeout", str |-> ""],
    [type |-> "ConnectError", str |-> "All connection attempts failed"],
    [type |-> "HTTPStatusError", str |-> "Client error '404 Not Found'"] }

\* What client.get raises for a url that is None or empty.
UrlErrors ==
  { [type |-> "TypeError", str |-> "Invalid type for url"],
    [type |-> "UnsupportedProtocol", str |-> "Request URL is missing a protocol"] }

\* What the parser raises on markup it cannot recover from.
ParseErrors ==
  { [type |-> "ParserRejectedMarkup", str |-> "html.parser rejected the markup"] }

----------------------------------------------------------------------------
(* The Orchestrator: main().                                               *)

Init ==
  /\ url \in Urls
  /\ pc = "Init"
  /\ original_html = <<>>
  /\ original_blocked = FALSE
  /\ soup = <<>>
  /\ js_modifications = <<>>
  /\ all_modifications = <<>>
  /\ processed_html = <<>>
  /\ iframe_compatible = FALSE
  /\ pushed = <<>>
  /\ fetches = 0
  /\ error_logged = FALSE
  /\ prev_soup = <<>>
  /\ runs = 0

\* The normalizer's entries never added to the record.
ApplyModificationsNoMetaEntries(doc) ==
  LET js == sanitize_javascript(doc)
      meta == clean_meta_tags(js.soup)
  IN  [soup |-> meta.soup, js |-> js.mods, all |-> js.mods]

\* Lines 164-173: the Script Rewriter, then the Meta-Tag Normalizer.
ApplyModifications(doc) ==
  LET js == sanitize_javascript(doc)
      meta == clean_meta_tags(js.soup)
  IN  [soup |-> meta.soup, js |-> js.mods, all |-> js.mods \o meta.mods]

\* main() is a pure function of the page it fetched. The functions it calls
\* are tabulated here over the texts and documents the runs meet, and the
\* steps below look the values up.
ParsedOf == [text \in Pages |-> BeautifulSoup(text)]
ModifiedOf == [text \in Pages |-> ApplyModifications(ParsedOf[text])]
SerializedOf == [doc \in {ModifiedOf[text].soup : text \in Pages} |-> str(doc)]
AssessedOf ==
  [text \in Pages \cup {SerializedOf[doc] : doc \in DOMAIN SerializedOf}
     |-> assess_iframe_compatibility(text)]
DetectedOf == [text \in Pages |-> detect_frame_busting_patterns(text)]

\* Lines 182-189.
Result ==
  [url |-> url,
   html_content |-> Some(processed_html),
   iframe_compatible |-> iframe_compatible,
   original_blocked |-> original_blocked,
   modifications_made |-> all_modifications,
   original_frame_busting_patterns |-> DetectedOf[original_html]]

\* Lines 201-209.
ErrorResult(e) ==
  [url |-> url,
   error |-> e.str,
   html_content |-> None,
   iframe_compatible |-> FALSE,
   original_blocked |-> TRUE,
   modifications_made |-> <<>>,
   original_frame_busting_patterns |-> <<>>]

\* An except clause that logs and emits nothing.
HandleExceptionNoRecord(e) ==
  /\ error_logged' = TRUE
  /\ pushed' = pushed
  /\ pc' = "Failed"

\* Lines 197-211: the except clause of main().
HandleException(e) ==
  /\ error_logged' = TRUE
  /\ pushed' = Append(pushed, ErrorResult(e))
  /\ pc' = "Failed"

\* Lines 141-148 with a url.
StartWithUrl ==
  /\ pc = "Init"
  /\ ~Falsy(url)
  /\ pc' = "Fetching"
  /\ UNCHANGED <<url, original_html, original_blocked, soup, js_modifications,
                 all_modifications, processed_html, iframe_compatible, pushed,
                 fetches, error_logged, prev_soup, runs>>

\* Lines 144-146 where Actor.exit() ends the process (sys.exit).
StartNoUrlExit ==
  /\ pc = "Init"
  /\ Falsy(url)
  /\ error_logged' = TRUE
  /\ pc' = "Exited"
  /\ UNCHANGED <<url, original_html, original_blocked, soup, js_modifications,
                 all_modifications, processed_html, iframe_compatible, pushed,
                 fetches, prev_soup, runs>>

\* Lines 144-148 where Actor.exit() returns to its caller (the exit is
\* prevented, as test_local.py does, or the SDK skips sys.exit): no return
\* statement follows the call, and main() goes on.
StartNoUrlContinue ==
  /\ pc = "Init"
  /\ Falsy(url)
  /\ error_logged' = TRUE
  /\ pc' = "Fetching"
  /\ UNCHANGED <<url, original_html, original_blocked, soup, js_modifications,
                 all_modifications, processed_html, iframe_compatible, pushed,
                 fetches, prev_soup, runs>>

\* Lines 152-159: the response arrives and parses.
FetchOk ==
  /\ pc = "Fetching"
  /\ ~Falsy(url)
  /\ \E text \in Pages :
       /\ original_html' = text
       /\ original_blocked' = ~AssessedOf[text]
  /\ fetches' = fetches + 1
  /\ pc' = "BaselineAssessed"
  /\ UNCHANGED <<url, soup, js_modifications, all_modifications, processed_html,
                 iframe_compatible, pushed, error_logged, prev_soup, runs>>

\* Lines 153-154 raise: a timeout, a connection failure, a non-2xx status,
\* or a url the client refuses.
FetchRaises ==
  /\ pc = "Fetching"
  /\ \E e \in (IF Falsy(url) THEN UrlErrors ELSE FetchErrors) : HandleException(e)
  /\ fetches' = fetches + 1
  /\ UNCHANGED <<url, original_html, original_blocked, soup, js_modifications,
                 all_modifications, processed_html, iframe_compatible,
                 prev_soup, runs>>

\* Lines 156-159 raise: the response arrived and the parser rejects it.
ParseRaises ==
  /\ pc = "Fetching"
  /\ ~Falsy(url)
  /\ \E e \in ParseErrors : HandleException(e)
  /\ fetches' = fetches + 1
  /\ UNCHANGED <<url, original_html, original_blocked, soup, js_modifications,
                 all_modifications, processed_html, iframe_compatible,
                 prev_soup, runs>>

\* Lines 162-173.
Rewrite ==
  /\ pc = "BaselineAssessed"
  /\ soup' = ModifiedOf[original_html].soup
  /\ js_modifications' = ModifiedOf[original_html].js
  /\ all_modifications' = ModifiedOf[original_html].all
  /\ prev_soup' = ParsedOf[original_html]
  /\ pc' = "Rewriting"
  /\ UNCHANGED <<url, original_html, original_blocked, processed_html,
                 iframe_compatible, pushed, fetches, error_logged, runs>>

\* Lines 176-179.
Reassess ==
  /\ pc = "Rewriting"
  /\ processed_html' = SerializedOf[soup]
  /\ iframe_compatible' = AssessedOf[SerializedOf[soup]]
  /\ pc' = "Reassessed"
  /\ UNCHANGED <<url, original_html, original_blocked, soup, js_modifications,
                 all_modifications, pushed, fetches, error_logged, prev_soup, runs>>

\* Lines 182-195.
Emit ==
  /\ pc = "Reassessed"
  /\ pushed' = Append(pushed, Result)
  /\ pc' = "Done"
  /\ UNCHANGED <<url, original_html, original_blocked, soup, js_modifications,
                 all_modifications, processed_html, iframe_compatible, fetches,
                 error_logged, prev_soup, runs>>

Next ==
  \/ StartWithUrl
  \/ StartNoUrlExit
  \/ StartNoUrlContinue
  \/ FetchOk
  \/ FetchRaises
  \/ ParseRaises
  \/ Rewrite
  \/ Reassess
  \/ Emit

Spec == Init /\ [][Next]_vars

\* The run is scheduled until it ends: every await of main() completes (the
\* fetch within its 30 s timeout).
FairSpec == Spec /\ WF_vars(Next)

----------------------------------------------------------------------------
(* The Script Rewriter alone, applied to a parsed page of inline scripts   *)
(* and then applied again.                                                 *)

\* What the script bodies are made of; ScriptBreak ends one script element
\* and opens the next.
ScriptBreak == <<"</script>", "<script>">>

Fragments ==
  { ScenarioA,
    <<"IF", "(", "self", "!=", "top", ")">>,
    <<"top", ".", "location", " ", "=", " ", "location">>,
    <<";">>,
    <<"}">>,
    <<"window", ".">>,
    <<"top", ".", "location", ".", "replace", "(", "x", ")">>,
    ScriptBreak }

ScriptPages == {ScriptTag(Concat(fs)) : fs \in SeqsUpTo(Fragments, MaxFrags)}

InitJs ==
  /\ url = Some("https://example.com")
  /\ pc = "Parsed"
  /\ original_html \in ScriptPages
  /\ original_blocked = FALSE
  /\ soup = BeautifulSoup(original_html)
  /\ js_modifications = <<>>
  /\ all_modifications = <<>>
  /\ processed_html = <<>>
  /\ iframe_compatible = FALSE
  /\ pushed = <<>>
  /\ fetches = 0
  /\ error_logged = FALSE
  /\ prev_soup = <<>>
  /\ runs = 0

\* One call sanitize_javascript(soup).
SanitizeStep ==
  /\ pc = "Parsed"
  /\ runs < MaxRuns
  /\ LET r == sanitize_javascript(soup)
     IN  /\ soup' = r.soup
         /\ js_modifications' = r.mods
         /\ all_modifications' = all_modifications \o r.mods
  /\ prev_soup' = soup
  /\ runs' = runs + 1
  /\ UNCHANGED <<url, pc, original_html, original_blocked, processed_html,
                 iframe_compatible, pushed, fetches, error_logged>>

SpecJs == InitJs /\ [][SanitizeStep]_vars

----------------------------------------------------------------------------
(* The Meta-Tag Normalizer alone, applied to a parsed page of meta tags.   *)

\* What a CSP meta's content attribute is made of.
Chunks == {"frame-", "FRAME-", "ancestors", ";", " ", "'none'", "default-src 'self'"}

Contents == SeqsUpTo(Chunks, MaxChunks)

MetaPages ==
  {before \o MetaTag(equiv, content) :
     before \in {<<>>, MetaTag("X-FRAME-OPTIONS", <<"DENY">>)},
     equiv \in {"Content-Security-Policy", "content-security-policy", "X-Frame-Options", "refresh"},
     content \in Contents}

InitMeta ==
  /\ url = Some("https://example.com")
  /\ pc = "Parsed"
  /\ original_html \in MetaPages
  /\ original_blocked = FALSE
  /\ soup = BeautifulSoup(original_html)
  /\ js_modifications = <<>>
  /\ all_modifications = <<>>
  /\ processed_html = <<>>
  /\ iframe_compatible = FALSE
  /\ pushed = <<>>
  /\ fetches = 0
  /\ error_logged = FALSE
  /\ prev_soup = <<>>
  /\ runs = 0

\* One call clean_meta_tags(soup).
CleanStep ==
  /\ pc = "Parsed"
  /\ runs < MaxRuns
  /\ LET r == clean_meta_tags(soup)
     IN  /\ soup' = r.soup
         /\ all_modifications' = all_modifications \o r.mods
  /\ prev_soup' = soup
  /\ runs' = runs + 1
  /\ UNCHANGED <<url, pc, original_html, original_blocked, js_modifications,
                 processed_html, iframe_compatible, pushed, fetches, error_logged>>

SpecMeta == InitMeta /\ [][CleanStep]_vars

----------------------------------------------------------------------------
(* Properties of the orchestrator.                                         *)

UrlGiven == ~Falsy(url)
Terminal == pc \in {"Done", "Failed"}
LastRecord == pushed[Len(pushed)]
IsErrorRecord(r) == "error" \in DOMAIN r

\* C1: whenever an exception is raised during the fetch or the parse, the
\* run emits a record whose error is a non-empty message, whose html_content
\* is None, whose iframe_compatible is false, whose original_blocked is true
\* and whose two lists are empty.
C1_ErrorRecordComplete ==
  pc = "Failed" =>
    /\ Len(pushed) >= 1
    /\ IsErrorRecord(LastRecord)
    /\ LastRecord.error # ""
    /\ LastRecord.html_content = None
    /\ LastRecord.iframe_compatible = FALSE
    /\ LastRecord.original_blocked = TRUE
    /\ LastRecord.modifications_made = <<>>
    /\ LastRecord.original_frame_busting_patterns = <<>>

\* C2: a run whose input has no url issues no fetch and emits no record.
C2_NoUrlNoFetchNoRecord ==
  Falsy(url) => (fetches = 0 /\ pushed = <<>>)

\* The steps of the orchestrator's state machine.
LinearSteps ==
  { <<"Init", "Fetching">>, <<"Fetching", "BaselineAssessed">>,
    <<"Fetching", "Failed">>, <<"BaselineAssessed", "Rewriting">>,
    <<"Rewriting", "Reassessed">>, <<"Reassessed", "Done">> }

C6_DetectedImpliesIncompatible ==
  /\ pc \in {"BaselineAssessed", "Rewriting", "Reassessed", "Done"} =>
       /\ detect_frame_busting_patterns(original_html) # <<>> => original_blocked
       /\ assess_iframe_compatibility(original_html) =>
            detect_frame_busting_patterns(original_html) = <<>>
  /\ pc \in {"Reassessed", "Done"} =>
       (detect_frame_busting_patterns(processed_html) # <<>> => ~iframe_compatible)
  /\ \A i \in 1..Len(pushed) :
       pushed[i].iframe_compatible =>
         /\ pushed[i].html_content # None
         /\ detect_frame_busting_patterns(pushed[i].html_content[1]) = <<>>

\* C6, reached: a page the Detector matched, with no blocking meta, that the rewrite made compatible.
C6_Witness ==
  /\ pc = "Done"
  /\ detect_frame_busting_patterns(original_html) # <<>>
  /\ ~(\E i \in 1..Len(prev_soup) : BlockingMeta(prev_soup[i]))
  /\ original_blocked
  /\ pushed[1].iframe_compatible

\* The detect signatures that no rewrite signature extends.
DetectionOnly == {patterns[7].id, patterns[13].id, patterns[14].id, patterns[15].id}

OnlyDetectionOnlyMatches(text) ==
  /\ detect_frame_busting_patterns(text) # <<>>
  /\ Range(detect_frame_busting_patterns(text)) \subseteq DetectionOnly

ScriptBodies(doc) == [i \in 1..Len(doc) |-> IF doc[i].kind = "script" THEN doc[i].body ELSE <<>>]

NoRewritableIdiom(doc) ==
  \A i \in 1..Len(doc) : \A k \in 1..NumRewrite :
    doc[i].kind = "script" => ~Search(frame_busting_patterns[k], doc[i].body)

NoEmbeddingControlMeta(doc) ==
  \A i \in 1..Len(doc) :
    doc[i].kind = "meta" =>
      /\ Lower(doc[i].equiv) # "x-frame-options"
      /\ ~(Lower(doc[i].equiv) = "content-security-policy" /\ Search(FrameAncestors, doc[i].body))

C8_Conclusion ==
  /\ pushed[1].original_frame_busting_patterns = detect_frame_busting_patterns(original_html)
  /\ Range(pushed[1].original_frame_busting_patterns) \cap DetectionOnly # {}
  /\ js_modifications = <<>>
  /\ \A i \in 1..Len(soup) : soup[i].kind = "script" => soup[i] \in Range(prev_soup)
  /\ Len(SelectSeq(soup, LAMBDA n : n.kind = "script"))
       = Len(SelectSeq(prev_soup, LAMBDA n : n.kind = "script"))
  /\ pushed[1].iframe_compatible = FALSE

Swapped(doc) ==
  LET meta == clean_meta_tags(doc)
      js == sanitize_javascript(meta.soup)
  IN  [soup |-> js.soup, all |-> meta.mods \o js.mods]

SameEntries(a, b) ==
  /\ Len(a) = Len(b)
  /\ \A x \in Range(a) \cup Range(b) : Count(x, a) = Count(x, b)

\* C10 as stated: the two orders give the same final document, the same
\* verdict and the same record, modifications_made included.
C10_AsStated ==
  pc = "Done" =>
    LET sw == Swapped(BeautifulSoup(original_html))
    IN  /\ str(sw.soup) = processed_html
        /\ assess_iframe_compatibility(str(sw.soup)) = iframe_compatible
        /\ sw.all = pushed[1].modifications_made

\* C10, amended: the two orders give the same final document and the same
\* verdict, and the same entries in modifications_made, as many times each,
\* but not in the same order.
C10_SameUpToEntryOrder ==
  pc = "Done" =>
    LET sw == Swapped(BeautifulSoup(original_html))
    IN  /\ str(sw.soup) = processed_html
        /\ assess_iframe_compatibility(str(sw.soup)) = iframe_compatible
        /\ SameEntries(sw.all, pushed[1].modifications_made)

\* C10, reached: a run in which both the rewriter and the normalizer recorded entries.
C10_Witness ==
  /\ pc = "Done"
  /\ js_modifications # <<>>
  /\ Len(pushed[1].modifications_made) > Len(js_modifications)

----------------------------------------------------------------------------
(* Properties of the Meta-Tag Normalizer.                                  *)

\* C4: after clean_meta_tags has run, no meta element has http-equiv equal
\* to x-frame-options (case-insensitively), and no content-security-policy
\* meta element that is left has a content holding frame-ancestors.
C4_MetaRemovalExhaustive ==
  runs >= 1 =>
    \A i \in 1..Len(soup) :
      soup[i].kind = "meta" =>
        /\ Lower(soup[i].equiv) # "x-frame-options"
        /\ Lower(soup[i].equiv) = "content-security-policy" =>
             ~Search(FrameAncestors, soup[i].body)

----------------------------------------------------------------------------
(* Properties of the Script Rewriter.                                      *)

IsScript(n) == n.kind = "script" /\ n.body # <<>>

\* The text of a script when signature k is tried on it.
TextSeen(body, k) == RewriteUpTo(body, k - 1).text

\* C5: a second pass of sanitize_javascript leaves the document as the first
\* pass left it and records nothing, and after a pass no script body matches
\* any rewrite signature.
C5_RewriterIdempotent ==
  /\ runs >= 1 =>
       \A i \in 1..Len(soup) : \A k \in 1..NumRewrite :
         soup[i].kind = "script" => ~Search(frame_busting_patterns[k], soup[i].body)
  /\ runs >= 2 => (soup = prev_soup /\ js_modifications = <<>>)

\* C5, reached: a second pass over a document that the first pass changed.
C5_Witness ==
  /\ runs = 2
  /\ all_modifications # <<>>
  /\ soup # BeautifulSoup(original_html)
  /\ soup = prev_soup
  /\ js_modifications = <<>>

RECURSIVE Sum(_)
Sum(ns) == IF ns = <<>> THEN 0 ELSE Head(ns) + Sum(Tail(ns))

\* The matches of signature k that the pass replaced, over all the scripts.
MatchesReplaced(doc, k) ==
  Sum([i \in 1..Len(doc) |->
         IF IsScript(doc[i])
         THEN Occurrences(frame_busting_patterns[k], TextSeen(doc[i].body, k))
         ELSE 0])

\* The scripts on which signature k matched when it was tried.
ScriptsMatched(doc, k) ==
  {i \in 1..Len(doc) :
     IsScript(doc[i]) /\ Search(frame_busting_patterns[k], TextSeen(doc[i].body, k))}

\* C7 as stated: the record holds one entry for each match of a signature,
\* in one script body or in several.
C7_AsStated ==
  runs = 1 =>
    \A k \in 1..NumRewrite :
      Count(RemovedEntry(frame_busting_patterns[k]), js_modifications)
        = MatchesReplaced(prev_soup, k)

\* C7, amended: the record is never deduplicated across script elements: it
\* holds one entry for each pair of a script element and a signature that
\* matched in it, however many matches the body held. Two matches in two
\* script elements give two entries, two matches in one body give one.
C7_EntryPerScriptAndSignature ==
  runs = 1 =>
    /\ \A k \in 1..NumRewrite :
         Count(RemovedEntry(frame_busting_patterns[k]), js_modifications)
           = Cardinality(ScriptsMatched(prev_soup, k))
    /\ Range(js_modifications)
         \subseteq {RemovedEntry(frame_busting_patterns[k]) : k \in 1..NumRewrite}

\* C7, reached: one script body in which the first signature matched twice, with one entry.
C7_Witness ==
  /\ runs = 1
  /\ Len(prev_soup) = 1
  /\ MatchesReplaced(prev_soup, 1) = 2
  /\ Count(RemovedEntry(frame_busting_patterns[1]), js_modifications) = 1

\* The catalogue index of a record entry.
IndexOf(entry) == CHOOSE k \in 1..NumRewrite : RemovedEntry(frame_busting_patterns[k]) = entry

\* C9: on one script body the signatures are tried in catalogue order, each
\* on the text the earlier ones left: the entries come in catalogue order,
\* a signature that matched the original body and matches nothing by its
\* turn adds no entry, and the body of Scenario A becomes exactly the
\* replacement literal with exactly one entry, that of its guard signature.
C9_CatalogueOrderOnCurrentText ==
  (runs = 1 /\ Len(prev_soup) = 1 /\ IsScript(prev_soup[1])) =>
    /\ \A i, j \in 1..Len(js_modifications) :
         i < j => IndexOf(js_modifications[i]) < IndexOf(js_modifications[j])
    /\ \A k \in 1..NumRewrite :
         (/\ Search(frame_busting_patterns[k], prev_soup[1].body)
          /\ ~Search(frame_busting_patterns[k], TextSeen(prev_soup[1].body, k)))
           => Count(RemovedEntry(frame_busting_patterns[k]), js_modifications) = 0
    /\ prev_soup[1].body = ScenarioA =>
         /\ soup = <<ScriptNode(Replacement)>>
         /\ js_modifications = <<RemovedEntry(frame_busting_patterns[1])>>

\* C9, reached: the body of Scenario A, which the sixth signature matches too, rewritten.
C9_Witness ==
  /\ runs = 1
  /\ prev_soup = <<ScriptNode(ScenarioA)>>
  /\ Search(frame_busting_patterns[6], prev_soup[1].body)
  /\ soup = <<ScriptNode(Replacement)>>
  /\ Len(js_modifications) = 1

====
